---- MODULE Spec2Model ----
(***************************************************************************)
(* Live Code Experiment MCP server (src/mcp-server/src/index.ts).          *)
(*                                                                         *)
(* The server advertises a fixed catalog of five tools, dispatches each    *)
(* tools/call request by name to one handler and answers with a result or  *)
(* with an McpError.  Spec follows one request at a time through the       *)
(* transport: Receive (a request arrives), CallTool (the whole             *)
(* CallToolRequestSchema handler), Reply (the response leaves), and        *)
(* ListTools (the whole ListToolsRequestSchema handler).  EventLoopSpec    *)
(* follows the microtasks of several requests that are in flight together. *)
(*                                                                         *)
(* Source strings are modelled as sequences of lexical atoms.  Every atom  *)
(* used below is one of                                                    *)
(*   for while return memo cache find indexOf sort length dp[ table[       *)
(*   ( ) { } ; < x and the blank " "                                       *)
(* No atom contains another atom's text and no concatenation of atoms      *)
(* creates an occurrence of "for", "while", "return", "(", "}" ... that    *)
(* crosses an atom boundary, so substring tests and the regular            *)
(* expressions of the source match on the atom sequence exactly where they *)
(* match on the character string.                                          *)
(***************************************************************************)
EXTENDS Integers, Sequences, FiniteSets, TLC

(***************************************************************************)
(* Bounds of the model.                                                    *)
(***************************************************************************)
MaxCodeLen == 4

(***************************************************************************)
(* Code strings.                                                           *)
(***************************************************************************)
Atoms == {"for", "while", " ", "(", "}", "return", "x"}

BoundedCodes == UNION {[1..n -> Atoms] : n \in 0..MaxCodeLen}

\* "for (;;) { for (;;) {} }"
ScenarioCode ==
  <<"for", " ", "(", ";", ";", ")", " ", "{", " ",
    "for", " ", "(", ";", ";", ")", " ", "{", "}", " ", "}">>

\* "for(x){x}for(" : the second header comes after the first block is closed
ClosedBlockCode == <<"for", "(", "x", ")", "{", "x", "}", "for", "(">>

\* "for(x){ {x} for(x){} }" : an inner block closes before the inner loop
InnerBlockCode ==
  <<"for", "(", "x", ")", "{", " ", "{", "x", "}", " ",
    "for", "(", "x", ")", "{", "}", " ", "}">>

\* "while(x<x length){memo}return cache" etc.: text for the pattern helpers
MemoCode == <<"return", " ", "memo", "(", "x", ")">>
LookupCode == <<"x", "indexOf", "(", "x", ")", ";", "x", "sort", "(", ")">>
TwoPointerCode ==
  <<"while", " ", "(", "x", "<", "x", "length", ")", "{", "dp[", "x", "}">>

\* "while (x) { while (x) { } }"
NestedWhileCode ==
  <<"while", " ", "(", "x", ")", " ", "{", " ",
    "while", " ", "(", "x", ")", " ", "{", " ", "}", " ", "}">>

\* "for (x) { while (x) { } }"
WhileInForCode ==
  <<"for", " ", "(", "x", ")", " ", "{", " ",
    "while", " ", "(", "x", ")", " ", "{", " ", "}", " ", "}">>

\* "x.find(x)" without the dot: a lookup through Array.prototype.find
FindCode == <<"x", "find", "(", "x", ")">>

\* "return x indexOf(x)": the recursion proxy and a lookup, no memo token
RecursiveLookupCode == <<"return", " ", "x", "indexOf", "(", "x", ")">>

\* "memo x": a memo token without the recursion proxy
MemoOnlyCode == <<"memo", " ", "x">>

\* "for(for(for(": three headers in one run without a closing brace
TripleForCode == <<"for", "(", "for", "(", "for", "(">>

\* "for(for(}for(for(": two runs of two headers
TwoNestCode == <<"for", "(", "for", "(", "}", "for", "(", "for", "(">>

SampleCodes ==
  {ScenarioCode, ClosedBlockCode, InnerBlockCode, MemoCode, LookupCode,
   TwoPointerCode, NestedWhileCode, WhileInForCode, FindCode,
   RecursiveLookupCode, MemoOnlyCode, TripleForCode, TwoNestCode}

Codes == BoundedCodes \cup SampleCodes

(***************************************************************************)
(* String helpers: String.prototype.includes and the two regular           *)
(* expressions of performComplexityAnalysis, on atom sequences.            *)
(***************************************************************************)
\* code.includes(atom)
Includes(code, atom) == \E i \in 1..Len(code) : code[i] = atom

\* code.includes(a followed directly by b), e.g. 'sort(' and 'find('
IncludesPair(code, a, b) ==
  \E i \in 1..Len(code) : i < Len(code) /\ code[i] = a /\ code[i + 1] = b

\* the atoms matched by \s
Whitespace == {" "}

RECURSIVE SkipWs(_, _)
SkipWs(code, i) ==
  IF i <= Len(code) /\ code[i] \in Whitespace THEN SkipWs(code, i + 1) ELSE i

\* kw\s*\(  anchored at position i: the index of the "(" that ends the match,
\* or 0 when the expression does not match at i
HeaderEnd(code, i, kws) ==
  IF i <= Len(code) /\ code[i] \in kws
  THEN LET j == SkipWs(code, i + 1)
       IN  IF j <= Len(code) /\ code[j] = "(" THEN j ELSE 0
  ELSE 0

SetMax(S) == CHOOSE m \in S : \A o \in S : o <= m
SetMin(S) == CHOOSE m \in S : \A o \in S : m <= o

\* (code.match(/for\s*\(|while\s*\(/g) || []).length
CountLoopHeaders(code) ==
  Cardinality({i \in 1..Len(code) : HeaderEnd(code, i, {"for", "while"}) # 0})

\* (code.match(/for\s*\(/g) || []).length
CountForHeaders(code) ==
  Cardinality({i \in 1..Len(code) : HeaderEnd(code, i, {"for"}) # 0})

\* first position after h that holds "}", or Len(code)+1: [^}]* cannot pass it
FirstBraceAfter(code, h) ==
  SetMin({j \in (h + 1)..(Len(code) + 1) : j = Len(code) + 1 \/ code[j] = "}"})

\* (code.match(/for\s*\([^}]*for\s*\(/g) || []).length : a global scan for
\* leftmost matches; [^}]* is greedy, so a match ends at the last for-header
\* that starts before the first "}", and the scan resumes after the match
RECURSIVE CountNestedFrom(_, _)
CountNestedFrom(code, i) ==
  IF i > Len(code) THEN 0
  ELSE LET h == HeaderEnd(code, i, {"for"})
       IN  IF h = 0 THEN CountNestedFrom(code, i + 1)
           ELSE LET stop  == FirstBraceAfter(code, h)
                    cands == {j \in (h + 1)..(stop - 1) :
                                 HeaderEnd(code, j, {"for"}) # 0}
                IN  IF cands = {} THEN CountNestedFrom(code, i + 1)
                    ELSE 1 + CountNestedFrom(code,
                               HeaderEnd(code, SetMax(cands), {"for"}) + 1)

\* a count of every for-header that has a later for-header before the next
\* closing brace, as if the matches could overlap
CountNestedOverlapping(code) ==
  Cardinality({i \in 1..Len(code) :
                 /\ HeaderEnd(code, i, {"for"}) # 0
                 /\ \E j \in (HeaderEnd(code, i, {"for"}) + 1)
                              ..(FirstBraceAfter(code, HeaderEnd(code, i, {"for"})) - 1) :
                      HeaderEnd(code, j, {"for"}) # 0})

CountNested(code) == CountNestedFrom(code, 1)

(***************************************************************************)
(* Complexity Analyzer.                                                    *)
(***************************************************************************)
\* the recursion proxy with || in place of &&
recursiveCallsEither(code) ==
  IF Includes(code, "return") \/ Includes(code, "(") THEN 1 ELSE 0

\* code.includes('return') && code.includes('(') ? 1 : 0
recursiveCalls(code) ==
  IF Includes(code, "return") /\ Includes(code, "(") THEN 1 ELSE 0

\* the classification with the loop test ahead of the nested-loop test
timeComplexityLoopsFirst(loopCount, nestedLoops, recursiveCall) ==
  IF loopCount > 0 THEN "O(n)"
  ELSE IF nestedLoops > 0 THEN "O(n^2)"
  ELSE IF recursiveCall > 0 THEN "O(n)"
  ELSE "O(1)"

\* let timeComplexity = 'O(1)'; if ... else if ... else if ...
\* "O(n^2)" stands for the source's "O(n2) with a superscript 2"
timeComplexity(loopCount, nestedLoops, recursiveCall) ==
  IF nestedLoops > 0 THEN "O(n^2)"
  ELSE IF loopCount > 0 THEN "O(n)"
  ELSE IF recursiveCall > 0 THEN "O(n)"
  ELSE "O(1)"

\* a score in which a nested loop weighs as much as a loop
complexityScoreUnweighted(loopCount, nestedLoops, recursiveCall) ==
  loopCount + nestedLoops + recursiveCall

\* complexity_score: loopCount + nestedLoops * 2 + recursiveCall
complexityScore(loopCount, nestedLoops, recursiveCall) ==
  loopCount + nestedLoops * 2 + recursiveCall

performComplexityAnalysis(code) ==
  LET loopCount     == CountLoopHeaders(code)
      nestedLoops   == CountNested(code)
      recursiveCall == recursiveCalls(code)
  IN  [time_complexity  |-> timeComplexity(loopCount, nestedLoops, recursiveCall),
       space_complexity |-> IF nestedLoops > 0 THEN "O(n)" ELSE "O(1)",
       loop_count       |-> loopCount,
       nested_loops     |-> nestedLoops,
       recursive_calls  |-> recursiveCall,
       complexity_score |-> complexityScore(loopCount, nestedLoops, recursiveCall)]

\* an estimate without the leading 1, which is 0 for code without loops
estimateComplexityNoBase(code) ==
  CountLoopHeaders(code) + CountNested(code) * 2

\* return 1 + loopCount + nestedLoops * 2
estimateComplexity(code) ==
  1 + CountLoopHeaders(code) + CountNested(code) * 2

(***************************************************************************)
(* JavaScript values.  A property that may be missing, null or present is  *)
(* a record [k, v]; v of an undefined or null property is a filler of the  *)
(* property's type and is never read.                                      *)
(***************************************************************************)
Undefined(filler) == [k |-> "undefined", v |-> filler]
Null(filler)      == [k |-> "null", v |-> filler]
Value(v)          == [k |-> "value", v |-> v]

\* a destructuring that declares no default
DestructureNoDefault(x, dflt) == x

\* const { field = dflt } = object : the default replaces undefined only
DestructureDefault(x, dflt) == IF x.k = "undefined" THEN Value(dflt) ELSE x

\* ToBoolean of a property holding a boolean, null or undefined
Truthy(x) == x.k = "value" /\ x.v

(***************************************************************************)
(* Numbers that are not integers are exact fractions [n, d] in lowest      *)
(* terms with d > 0 (the source computes them in double precision).        *)
(***************************************************************************)
RECURSIVE GCD(_, _)
GCD(a, b) == IF b = 0 THEN a ELSE GCD(b, a % b)

Abs(n) == IF n < 0 THEN -n ELSE n

\* a zero denominator stands for the results of a division by zero:
\* 1/0 and -1/0 for the infinities, 0/0 for NaN
Rat(n, d) ==
  IF d = 0
  THEN [n |-> IF n > 0 THEN 1 ELSE IF n < 0 THEN -1 ELSE 0, d |-> 0]
  ELSE LET g == GCD(Abs(n), Abs(d))
           s == IF d < 0 THEN -1 ELSE 1
       IN  [n |-> (s * n) \div g, d |-> (s * d) \div g]

RatAdd(a, b)  == Rat(a.n * b.d + b.n * a.d, a.d * b.d)
RatSub(a, b)  == Rat(a.n * b.d - b.n * a.d, a.d * b.d)
RatMul(a, b)  == Rat(a.n * b.n, a.d * b.d)
RatDiv(a, b)  == Rat(a.n * b.d, a.d * b.n)
RatLess(a, b) == a.n * b.d < b.n * a.d
RatMax(a, b)  == IF RatLess(a, b) THEN b ELSE a

\* Array.prototype.sort with a comparator that orders by descending key; the
\* sort is stable, so equal keys keep their order
Rank(keys, i) ==
  1 + Cardinality({j \in DOMAIN keys :
                     RatLess(keys[i], keys[j]) \/ (keys[j] = keys[i] /\ j < i)})

SortDescending(seq, keys) ==
  [r \in 1..Len(seq) |-> seq[CHOOSE i \in 1..Len(seq) : Rank(keys, i) = r]]

\* Array.prototype.slice(0, n)
Slice(seq, n) == SubSeq(seq, 1, IF Len(seq) < n THEN Len(seq) ELSE n)

(***************************************************************************)
(* Helper methods of analyze_code_complexity.                              *)
(***************************************************************************)
identifyOptimizationOpportunities(code, target) ==
  LET sorting == IF IncludesPair(code, "sort", "(") /\ target = "performance"
                 THEN <<[type |-> "algorithm_optimization",
                         description |->
                           "Consider using specialized sorting algorithms for specific data types",
                         impact |-> "medium", effort |-> "low"]>>
                 ELSE <<>>
      loops   == IF CountForHeaders(code) > 1
                 THEN <<[type |-> "loop_optimization",
                         description |->
                           "Multiple loops detected - consider loop fusion or vectorization",
                         impact |-> "high", effort |-> "medium"]>>
                 ELSE <<>>
      lookup  == IF Includes(code, "indexOf") \/ IncludesPair(code, "find", "(")
                 THEN <<[type |-> "data_structure",
                         description |->
                           "Replace linear search with hash-based lookup",
                         impact |-> "high", effort |-> "low"]>>
                 ELSE <<>>
  IN  sorting \o loops \o lookup

detectPatterns(code) ==
  LET memoization == IF Includes(code, "memo") \/ Includes(code, "cache")
                     THEN <<"memoization">> ELSE <<>>
      dp          == IF Includes(code, "dp[") \/ Includes(code, "table[")
                     THEN <<"dynamic_programming">> ELSE <<>>
      \* code.match(/while.*<.*length/)
      twoPointers == IF \E i, j, l \in 1..Len(code) :
                           /\ i < j /\ j < l
                           /\ code[i] = "while" /\ code[j] = "<"
                           /\ code[l] = "length"
                     THEN <<"two_pointers">> ELSE <<>>
  IN  memoization \o dp \o twoPointers

impactScore == [high |-> 3, medium |-> 2, low |-> 1]
effortScore == [low |-> 3, medium |-> 2, high |-> 1]

\* the opportunities array as Array.prototype.sort leaves it: the sort is in
\* place, so the caller's array is reordered as well
SortedOpportunities(opportunities) ==
  SortDescending(opportunities,
    [i \in DOMAIN opportunities |->
       Rat(impactScore[opportunities[i].impact]
             * effortScore[opportunities[i].effort], 1)])

prioritizeRecommendations(opportunities) ==
  Slice(SortedOpportunities(opportunities), 3)

estimateImprovements(opportunities) ==
  [i \in DOMAIN opportunities |->
     [type |-> opportunities[i].type,
      estimated_speedup |->
        IF opportunities[i].impact = "high" THEN "2-5x"
        ELSE IF opportunities[i].impact = "medium" THEN "1.5-2x"
        ELSE "1.1-1.5x",
      confidence |-> "medium"]]

(***************************************************************************)
(* Pattern Detector rule table.                                            *)
(***************************************************************************)
\* a default arm whose score does not pass the 0.3 filter
defaultApplicabilityLow ==
  [score |-> Rat(3, 10),
   difficulty |-> "medium",
   estimatedImprovement |-> 25,
   indicators |-> <<>>,
   hint |-> "Pattern analysis available"]

\* the default arm of the switch on the pattern name
defaultApplicability ==
  [score |-> Rat(5, 10),
   difficulty |-> "medium",
   estimatedImprovement |-> 25,
   indicators |-> <<>>,
   hint |-> "Pattern analysis available"]

\* the lookup test with the two tokens required together
hasLookupsBoth(code) == Includes(code, "find") /\ Includes(code, "indexOf")

\* const hasLookups = code.includes('find') || code.includes('indexOf')
hasLookups(code) == Includes(code, "find") \/ Includes(code, "indexOf")

assessPatternApplicability(code, pattern) ==
  IF pattern = "dynamic_programming"
  THEN LET hasRecursion   == Includes(code, "return") /\ Includes(code, "(")
           hasOverlapping == Includes(code, "memo") \/ hasRecursion
       IN  [score |-> IF hasOverlapping THEN Rat(8, 10) ELSE Rat(2, 10),
            difficulty |-> "medium",
            estimatedImprovement |-> 40,
            indicators |-> IF hasOverlapping
                           THEN <<"recursion", "overlapping_subproblems">>
                           ELSE <<>>,
            hint |-> "Look for overlapping subproblems and optimal substructure"]
  ELSE IF pattern = "caching"
  THEN [score |-> IF hasLookups(code) THEN Rat(9, 10) ELSE Rat(3, 10),
        difficulty |-> "low",
        estimatedImprovement |-> 60,
        indicators |-> IF hasLookups(code) THEN <<"repeated_lookups">> ELSE <<>>,
        hint |-> "Cache frequently accessed data"]
  ELSE defaultApplicability

(***************************************************************************)
(* Schema Registry: the literal returned by the ListToolsRequestSchema     *)
(* handler.  Each definition keeps its name, description, property names,  *)
(* required list and the defaults its inputSchema advertises.              *)
(***************************************************************************)
DefaultPatternTypes ==
  <<"dynamic_programming", "caching", "two_pointers", "sliding_window",
    "hash_maps">>

DefaultTestCategories ==
  <<"edge_cases", "performance", "correctness", "error_handling">>

AnalyzeTool ==
  [name |-> "analyze_code_complexity",
   description |->
     "Analyze algorithmic complexity and performance characteristics of code",
   properties |-> <<"code", "language", "optimization_target",
                    "include_patterns", "include_complexity">>,
   required |-> <<"code", "language", "optimization_target">>,
   defaults |-> [include_patterns |-> TRUE, include_complexity |-> TRUE]]

BenchmarkTool ==
  [name |-> "benchmark_performance",
   description |->
     "Compare performance between original and optimized code variants",
   properties |-> <<"original_code", "optimized_variants", "language",
                    "test_iterations">>,
   required |-> <<"original_code", "optimized_variants", "language">>,
   defaults |-> [test_iterations |-> 1000]]

DetectTool ==
  [name |-> "detect_optimization_patterns",
   description |-> "Detect applicable optimization patterns in code",
   properties |-> <<"code_snippet", "language", "pattern_types">>,
   required |-> <<"code_snippet", "language">>,
   defaults |-> [pattern_types |-> DefaultPatternTypes]]

GenerateTool ==
  [name |-> "generate_test_cases",
   description |->
     "Generate comprehensive test cases for code optimization validation",
   properties |-> <<"function_signature", "language", "test_categories">>,
   required |-> <<"function_signature", "language">>,
   defaults |-> [test_categories |-> DefaultTestCategories]]

ReportTool ==
  [name |-> "create_optimization_report",
   description |-> "Generate comprehensive optimization analysis report",
   properties |-> <<"experiment_data", "include_visualizations">>,
   required |-> <<"experiment_data">>,
   defaults |-> [include_visualizations |-> TRUE]]

\* a catalog whose last entry repeats the entry before it
ToolCatalogRepeated ==
  <<AnalyzeTool, BenchmarkTool, DetectTool, GenerateTool, GenerateTool>>

ToolCatalog ==
  <<AnalyzeTool, BenchmarkTool, DetectTool, GenerateTool, ReportTool>>

(***************************************************************************)
(* Completions of a handler: it returns a ToolResponse or throws.  "bound" *)
(* records the values the handler's destructuring bound to the parameters  *)
(* that have a default.                                                    *)
(***************************************************************************)
NoError == [class |-> "none", code |-> "none", message |-> ""]

TypeError(message) == [class |-> "TypeError", code |-> "none", message |-> message]

McpError(code, message) == [class |-> "McpError", code |-> code, message |-> message]

\* a result that carries its text block twice
ReturnTwoBlocks(payload, bound) ==
  [outcome |-> "return",
   content |-> <<[type |-> "text", text |-> payload],
                 [type |-> "text", text |-> payload]>>,
   error   |-> NoError,
   bound   |-> bound]

\* return { content: [{ type: 'text', text: JSON.stringify(...) }] }
Return(payload, bound) ==
  [outcome |-> "return",
   content |-> <<[type |-> "text", text |-> payload]>>,
   error   |-> NoError,
   bound   |-> bound]

Throw(error, bound) ==
  [outcome |-> "throw", content |-> <<>>, error |-> error, bound |-> bound]

\* nothing is bound when the destructuring itself throws
Unbound == <<>>

\* JSON.stringify leaves out the properties whose value is undefined
Stringify(obj, optional) ==
  [f \in DOMAIN obj \ {g \in optional : obj[g].k = "undefined"} |-> obj[f]]

\* const { ... } = request, when the request carries no arguments object
DestructureUndefined(property, parameter) ==
  TypeError("Cannot destructure property '" \o property \o "' of '"
            \o parameter \o "' as it is undefined.")

NoAnalysis == performComplexityAnalysis(<<>>)

(***************************************************************************)
(* analyze_code_complexity                                                 *)
(***************************************************************************)
analyzeCodeComplexity(request, now) ==
  IF ~request.hasArguments
  THEN Throw(DestructureUndefined("code", "request"), Unbound)
  ELSE
  LET args == request.arguments
      include_patterns   == DestructureDefault(args.include_patterns, TRUE)
      include_complexity == DestructureDefault(args.include_complexity, TRUE)
      complexityAnalysis == performComplexityAnalysis(args.code)
      optimizationOpportunities ==
        identifyOptimizationOpportunities(args.code, args.optimization_target)
      patterns == IF Truthy(include_patterns)
                  THEN detectPatterns(args.code) ELSE <<>>
  IN  Return(
        [analysis_timestamp  |-> now,
         language            |-> args.language,
         optimization_target |-> args.optimization_target,
         complexity_analysis |-> IF Truthy(include_complexity)
                                 THEN Value(complexityAnalysis)
                                 ELSE Null(NoAnalysis),
         \* prioritizeRecommendations has sorted this array in place by the
         \* time the object is serialised
         optimization_opportunities |->
           SortedOpportunities(optimizationOpportunities),
         applicable_patterns     |-> patterns,
         recommendation_priority |->
           prioritizeRecommendations(optimizationOpportunities),
         estimated_improvements  |->
           estimateImprovements(SortedOpportunities(optimizationOpportunities)),
         mcp_server_version      |-> "1.0.0"],
        [include_patterns   |-> include_patterns,
         include_complexity |-> include_complexity])

(***************************************************************************)
(* benchmark_performance                                                   *)
(***************************************************************************)
\* Math.random() returns steps / RandSteps
RandSteps == 4

Draws == 0..(RandSteps - 1)

\* a comparison that lets a later result replace an equal earlier one
betterOrEqual(current, best) ==
  ~RatLess(current.improvement_percentage, best.improvement_percentage)

\* current.improvement_percentage > best.improvement_percentage
better(current, best) ==
  RatLess(best.improvement_percentage, current.improvement_percentage)

\* the callback of benchmarkResults.reduce, folded over results[i..]
RECURSIVE ReduceBest(_, _, _)
ReduceBest(results, best, i) ==
  IF i > Len(results) THEN best
  ELSE ReduceBest(results,
         IF better(results[i], best) THEN results[i] ELSE best,
         i + 1)

\* a reduce that starts from an initial placeholder instead of the first
\* element, so that an empty array yields the placeholder
ReduceWithInitial(results) ==
  [k |-> "value",
   v |-> ReduceBest(results,
                    [variant_name |-> "none",
                     improvement_percentage |-> Rat(-20, 1)],
                    1)]

\* benchmarkResults.reduce((best, current) => ...) without an initial value:
\* the first element starts the fold, and an empty array throws
ReduceBestVariant(results) ==
  IF results = <<>>
  THEN [k |-> "throw",
        v |-> TypeError("Reduce of empty array with no initial value")]
  ELSE [k |-> "value", v |-> ReduceBest(results, results[1], 2)]

RECURSIVE SumImprovement(_, _)
SumImprovement(results, i) ==
  IF i > Len(results) THEN Rat(0, 1)
  ELSE RatAdd(results[i].improvement_percentage, SumImprovement(results, i + 1))

\* a noise factor ranging over [0.5, 1.5)
randomFactorWide(draw) == RatAdd(Rat(1, 2), Rat(draw, RandSteps))

\* a noise factor ranging over [0.8, 1.6)
randomFactorDouble(draw) ==
  RatAdd(Rat(8, 10), RatMul(Rat(draw, RandSteps), Rat(8, 10)))

\* (0.8 + Math.random() * 0.4), with Math.random() = draw / RandSteps
randomFactor(draw) ==
  RatAdd(Rat(8, 10), RatMul(Rat(draw, RandSteps), Rat(4, 10)))

\* baselineComplexity / Math.max(variantComplexity, 0.1)
improvementFactor(baselineComplexity, variantComplexity) ==
  RatDiv(Rat(baselineComplexity, 1),
         RatMax(Rat(variantComplexity, 1), Rat(1, 10)))

\* an improvement that is not held at -20
improvementPercentageUnclamped(simulatedExecutionTime) ==
  RatMul(RatSub(Rat(1, 1), simulatedExecutionTime), Rat(100, 1))

\* Math.max(-20, (1 - simulatedExecutionTime) * 100)
improvementPercentage(simulatedExecutionTime) ==
  RatMax(Rat(-20, 1),
         RatMul(RatSub(Rat(1, 1), simulatedExecutionTime), Rat(100, 1)))

\* Math.max(0.5, 10 - memoryImprovement), with
\* memoryImprovement = Math.max(0, (improvementFactor - 1) * 30)
memoryUsage(factor) ==
  LET memoryImprovement ==
        RatMax(Rat(0, 1), RatMul(RatSub(factor, Rat(1, 1)), Rat(30, 1)))
  IN  RatMax(Rat(1, 2), RatSub(Rat(10, 1), memoryImprovement))

BenchmarkVariant(original_code, variant, test_iterations, draw) ==
  LET baselineComplexity == estimateComplexity(original_code)
      variantComplexity  == estimateComplexity(variant.code)
      factor == improvementFactor(baselineComplexity, variantComplexity)
      simulatedExecutionTime ==
        RatMul(RatDiv(Rat(1, 1), factor), randomFactor(draw))
  IN  Stringify(
        [variant_name        |-> variant.name,
         variant_description |-> variant.description,
         execution_time_ms   |-> simulatedExecutionTime,
         memory_usage_mb     |-> memoryUsage(factor),
         improvement_percentage |-> improvementPercentage(simulatedExecutionTime),
         complexity_score    |-> variantComplexity,
         test_iterations     |-> test_iterations,
         benchmark_quality   |-> "mcp_server_simulated"],
        {"variant_description"})

benchmarkPerformance(request, now, rnd) ==
  IF ~request.hasArguments
  THEN Throw(DestructureUndefined("original_code", "request"), Unbound)
  ELSE
  LET args == request.arguments
      test_iterations  == DestructureDefault(args.test_iterations, 1000)
      benchmarkResults ==
        [i \in DOMAIN args.optimized_variants |->
           BenchmarkVariant(args.original_code, args.optimized_variants[i],
                            test_iterations, rnd[i])]
      reduced == ReduceBestVariant(benchmarkResults)
  IN  IF reduced.k = "throw"
      THEN Throw(reduced.v, [test_iterations |-> test_iterations])
      ELSE
      LET bestVariant == reduced.v
      IN  Return(
            [benchmark_timestamp |-> now,
             language            |-> args.language,
             test_iterations     |-> test_iterations,
             original_code_complexity |-> estimateComplexity(args.original_code),
             variant_results     |-> benchmarkResults,
             best_variant        |-> bestVariant,
             performance_summary |->
               [total_variants_tested |-> Len(args.optimized_variants),
                average_improvement   |->
                  RatDiv(SumImprovement(benchmarkResults, 1),
                         Rat(Len(benchmarkResults), 1)),
                best_improvement      |-> bestVariant.improvement_percentage,
                mcp_server_analysis   |-> TRUE]],
            [test_iterations |-> test_iterations])

(***************************************************************************)
(* detect_optimization_patterns                                            *)
(***************************************************************************)
Digits == <<"0", "1", "2", "3", "4", "5", "6", "7", "8", "9">>

RECURSIVE NatToString(_)
NatToString(n) ==
  IF n < 10 THEN Digits[n + 1]
  ELSE NatToString(n \div 10) \o Digits[(n % 10) + 1]

\* Number.prototype.toFixed(1) of a non-negative number
ToFixed1(r) ==
  LET tenths == (2 * 10 * r.n + r.d) \div (2 * r.d)
  IN  NatToString(tenths \div 10) \o "." \o NatToString(tenths % 10)

\* code_snippet.length, in characters
RECURSIVE StringLength(_)
StringLength(code) ==
  IF code = <<>> THEN 0 ELSE Len(Head(code)) + StringLength(Tail(code))

PatternResult(code, pattern) ==
  LET applicability == assessPatternApplicability(code, pattern)
  IN  [pattern_name              |-> pattern,
       applicability_score       |-> applicability.score,
       implementation_difficulty |-> applicability.difficulty,
       estimated_improvement     |-> applicability.estimatedImprovement,
       code_indicators           |-> applicability.indicators,
       implementation_hint       |-> applicability.hint]

PatternRecommendation(p) ==
  [pattern |-> p.pattern_name,
   reason  |-> "High applicability ("
               \o ToFixed1(RatMul(p.applicability_score, Rat(100, 1)))
               \o "%) with " \o p.implementation_difficulty \o " implementation",
   estimated_benefit |->
     ToFixed1(Rat(p.estimated_improvement, 1)) \o "% improvement"]

\* a sort by ascending score
sortByScoreAscending(detectedPatterns) ==
  SortDescending(detectedPatterns,
    [i \in DOMAIN detectedPatterns |->
       Rat(-detectedPatterns[i].applicability_score.n,
           detectedPatterns[i].applicability_score.d)])

\* detectedPatterns.sort((a, b) => b.applicability_score - a.applicability_score)
sortByScore(detectedPatterns) ==
  SortDescending(detectedPatterns,
    [i \in DOMAIN detectedPatterns |-> detectedPatterns[i].applicability_score])

\* a filter that also keeps a score of exactly 0.3
aboveOrAtThreshold(p) == ~RatLess(p.applicability_score, Rat(3, 10))

\* .filter(p => p.applicability_score > 0.3)
aboveThreshold(p) == RatLess(Rat(3, 10), p.applicability_score)

detectOptimizationPatterns(request, now) ==
  IF ~request.hasArguments
  THEN Throw(DestructureUndefined("code_snippet", "request"), Unbound)
  ELSE
  LET args == request.arguments
      pattern_types == DestructureDefault(args.pattern_types, DefaultPatternTypes)
  IN  IF pattern_types.k = "null"
      THEN Throw(TypeError("Cannot read properties of null (reading 'map')"),
                 [pattern_types |-> pattern_types])
      ELSE
      LET mapped == [i \in DOMAIN pattern_types.v |->
                       PatternResult(args.code_snippet, pattern_types.v[i])]
          detectedPatterns ==
            SelectSeq(mapped, aboveThreshold)
          \* detectedPatterns.sort(...) reorders detectedPatterns itself
          sorted == sortByScore(detectedPatterns)
          top == Slice(sorted, 3)
      IN  Return(
            [analysis_timestamp |-> now,
             language           |-> args.language,
             code_length        |-> StringLength(args.code_snippet),
             detected_patterns  |-> sorted,
             pattern_recommendations |->
               [i \in DOMAIN top |-> PatternRecommendation(top[i])],
             mcp_server_confidence |->
               IF Len(detectedPatterns) > 0 THEN "high" ELSE "medium"],
            [pattern_types |-> pattern_types])

(***************************************************************************)
(* generate_test_cases                                                     *)
(***************************************************************************)
\* a switch in which every category takes the default arm
TestCategoryDefaultOnly(category) ==
  [category |-> category, tests |-> <<"General test case">>]

\* the arrow function of test_categories.map: one switch over the category
TestCategory(category) ==
  IF category = "edge_cases"
  THEN [category |-> "edge_cases",
        tests |-> <<"Empty input handling", "Single element input",
                    "Maximum size input", "Null/undefined values",
                    "Boundary conditions">>]
  ELSE IF category = "performance"
  THEN [category |-> "performance",
        tests |-> <<"Large dataset performance (10K+ elements)",
                    "Memory usage under load", "Execution time benchmarks",
                    "Scalability testing", "Resource utilization">>]
  ELSE IF category = "correctness"
  THEN [category |-> "correctness",
        tests |-> <<"Algorithm correctness validation",
                    "Output format verification", "Mathematical accuracy",
                    "Sorting/ordering validation", "Data integrity checks">>]
  ELSE IF category = "error_handling"
  THEN [category |-> "error_handling",
        tests |-> <<"Invalid input handling", "Type safety validation",
                    "Exception propagation", "Graceful degradation",
                    "Error message quality">>]
  ELSE [category |-> category, tests |-> <<"General test case">>]

RECURSIVE SumTests(_, _)
SumTests(testCases, i) ==
  IF i > Len(testCases) THEN 0
  ELSE Len(testCases[i].tests) + SumTests(testCases, i + 1)

generateTestCases(request, now) ==
  IF ~request.hasArguments
  THEN Throw(DestructureUndefined("function_signature", "args"), Unbound)
  ELSE
  LET args == request.arguments
      test_categories ==
        DestructureDefault(args.test_categories, DefaultTestCategories)
  IN  IF test_categories.k = "null"
      THEN Throw(TypeError("Cannot read properties of null (reading 'map')"),
                 [test_categories |-> test_categories])
      ELSE
      LET testCases == [i \in DOMAIN test_categories.v |->
                          TestCategory(test_categories.v[i])]
      IN  Return(
            [generation_timestamp |-> now,
             function_signature   |-> args.function_signature,
             language             |-> args.language,
             test_framework_recommendations |->
               IF args.language = "javascript" THEN <<"Jest", "Mocha">>
               ELSE IF args.language = "python" THEN <<"pytest", "unittest">>
               ELSE <<"framework_specific">>,
             generated_test_categories |-> testCases,
             total_test_scenarios |-> SumTests(testCases, 1),
             mcp_server_generated |-> TRUE],
            [test_categories |-> test_categories])

(***************************************************************************)
(* create_optimization_report                                              *)
(***************************************************************************)
generateASCIIChart == "Performance Improvement Chart"

\* property || 0, for a property holding a number, null or undefined
OrZero(x) == IF x.k = "value" /\ x.v # 0 THEN x.v ELSE 0

createOptimizationReport(request, now) ==
  IF ~request.hasArguments
  THEN Throw(DestructureUndefined("experiment_data", "args"), Unbound)
  ELSE
  LET args == request.arguments
      experiment_data == args.experiment_data
      include_visualizations ==
        DestructureDefault(args.include_visualizations, TRUE)
  IN  IF experiment_data.k # "value"
      THEN Throw(TypeError("Cannot read properties of " \o experiment_data.k
                           \o " (reading 'total_variants')"),
                 [include_visualizations |-> include_visualizations])
      ELSE Return(
             [report_generated |-> now,
              experiment_summary |->
                [total_variants   |-> OrZero(experiment_data.v.total_variants),
                 best_improvement |-> OrZero(experiment_data.v.avg_improvement),
                 execution_environment |->
                   "Live Code Experiment Agent + MCP Server"],
              visualization |-> IF Truthy(include_visualizations)
                                THEN Value(generateASCIIChart) ELSE Null(""),
              recommendations |->
                <<"Consider implementing the best performing variant in production",
                  "Monitor performance metrics after deployment",
                  "Set up continuous performance testing",
                  "Document optimization patterns for team knowledge sharing">>,
              mcp_server_analysis |->
                [server_name |-> "live-code-experiment-mcp",
                 version |-> "1.0.0",
                 yc_agent_jam_2024 |-> TRUE]],
             [include_visualizations |-> include_visualizations])

(***************************************************************************)
(* Dispatcher: the CallToolRequestSchema handler.                          *)
(***************************************************************************)
\* a default arm that throws a plain Error
NotFoundPlainError(request) ==
  [ran |-> <<>>,
   completion |->
     Throw([class |-> "Error", code |-> "none",
            message |-> "Tool " \o request.name \o " not found"],
           Unbound)]

\* the default arm of the switch
NotFound(request) ==
  [ran |-> <<>>,
   completion |->
     Throw(McpError("MethodNotFound", "Tool " \o request.name \o " not found"),
           Unbound)]

\* the body of the try block: the switch on the tool name.  "ran" lists the
\* handlers the call has run
Dispatch(request, now, rnd) ==
  CASE request.name = "analyze_code_complexity" ->
         [ran |-> <<"analyzeCodeComplexity">>,
          completion |-> analyzeCodeComplexity(request, now)]
    [] request.name = "benchmark_performance" ->
         [ran |-> <<"benchmarkPerformance">>,
          completion |-> benchmarkPerformance(request, now, rnd)]
    [] request.name = "detect_optimization_patterns" ->
         [ran |-> <<"detectOptimizationPatterns">>,
          completion |-> detectOptimizationPatterns(request, now)]
    [] request.name = "generate_test_cases" ->
         [ran |-> <<"generateTestCases">>,
          completion |-> generateTestCases(request, now)]
    [] request.name = "create_optimization_report" ->
         [ran |-> <<"createOptimizationReport">>,
          completion |-> createOptimizationReport(request, now)]
    [] OTHER -> NotFound(request)

\* a catch block that wraps whatever was thrown
CatchBlockWrapAll(request, attempt) ==
  [ran    |-> attempt.ran,
   raised |-> attempt.completion.error,
   completion |->
     IF attempt.completion.outcome # "throw" THEN attempt.completion
     ELSE Throw(McpError("InternalError",
                         "Error executing tool " \o request.name \o ": "
                         \o attempt.completion.error.message),
                attempt.completion.bound)]

\* a catch block that answers a handler's exception with an empty result
CatchBlockSwallow(request, attempt) ==
  [ran    |-> attempt.ran,
   raised |-> attempt.completion.error,
   completion |->
     IF attempt.completion.outcome # "throw" THEN attempt.completion
     ELSE IF attempt.completion.error.class = "McpError"
     THEN attempt.completion
     ELSE [outcome |-> "return", content |-> <<>>, error |-> NoError,
           bound |-> attempt.completion.bound]]

\* a catch block that runs the handler a second time before giving up
CatchBlockRetry(request, attempt) ==
  [ran    |-> IF attempt.completion.outcome = "throw"
                 /\ attempt.completion.error.class # "McpError"
              THEN attempt.ran \o attempt.ran ELSE attempt.ran,
   raised |-> attempt.completion.error,
   completion |->
     IF attempt.completion.outcome # "throw" THEN attempt.completion
     ELSE IF attempt.completion.error.class = "McpError"
     THEN attempt.completion
     ELSE Throw(McpError("InternalError",
                         "Error executing tool " \o request.name \o ": "
                         \o attempt.completion.error.message),
                attempt.completion.bound)]

\* the catch block: an McpError is rethrown, anything else is wrapped.
\* "raised" is what the try block threw (NoError when it returned)
CatchBlock(request, attempt) ==
  [ran    |-> attempt.ran,
   raised |-> attempt.completion.error,
   completion |->
     IF attempt.completion.outcome # "throw" THEN attempt.completion
     ELSE IF attempt.completion.error.class = "McpError"
     THEN attempt.completion
     ELSE Throw(McpError("InternalError",
                         "Error executing tool " \o request.name \o ": "
                         \o attempt.completion.error.message),
                attempt.completion.bound)]

CallToolRequest(request, now, rnd) ==
  CatchBlock(request, Dispatch(request, now, rnd))

\* what the protocol layer sends for a completion of the request handler
ResponseOf(completion) ==
  IF completion.outcome = "return"
  THEN [kind |-> "result", content |-> completion.content,
        code |-> "none", message |-> ""]
  ELSE [kind |-> "error", content |-> <<>>,
        code |-> completion.error.code, message |-> completion.error.message]

(***************************************************************************)
(* Requests the transport can deliver.                                     *)
(***************************************************************************)
MaxVariants == 2

Request(name, arguments) ==
  [name |-> name, hasArguments |-> TRUE, arguments |-> arguments]

\* a tools/call request without an arguments object
BareRequest(name) == [name |-> name, hasArguments |-> FALSE, arguments |-> <<>>]

NoRequest == BareRequest("")

OptionalBooleans == {Undefined(FALSE), Null(FALSE), Value(TRUE), Value(FALSE)}

AnalyzeArguments(code, target, ip, ic) ==
  [code |-> code, language |-> "javascript", optimization_target |-> target,
   include_patterns |-> ip, include_complexity |-> ic]

AnalyzeRequests ==
  {Request("analyze_code_complexity",
           AnalyzeArguments(c, "performance", Undefined(FALSE), Undefined(FALSE))) :
     c \in BoundedCodes}
  \cup
  {Request("analyze_code_complexity", AnalyzeArguments(c, t, ip, ic)) :
     c \in SampleCodes, t \in {"performance", "memory"},
     ip \in OptionalBooleans, ic \in OptionalBooleans}

VariantPool ==
  {[name |-> "flat", code |-> <<"x">>, description |-> Value("no loop")],
   [name |-> "single", code |-> <<"for", "(", "x">>,
    description |-> Undefined("")],
   [name |-> "nested", code |-> <<"for", "(", "for", "(">>,
    description |-> Value("two loops")]}

VariantLists == UNION {[1..n -> VariantPool] : n \in 0..MaxVariants}

BenchmarkArguments(original, variants, iterations) ==
  [original_code |-> original, optimized_variants |-> variants,
   language |-> "javascript", test_iterations |-> iterations]

BenchmarkRequests ==
  {Request("benchmark_performance", BenchmarkArguments(o, vs, Undefined(0))) :
     o \in {<<"x">>, <<"for", "(", "x">>, <<"for", "(", "for", "(">>},
     vs \in VariantLists}
  \cup
  {Request("benchmark_performance", BenchmarkArguments(<<"for", "(", "x">>, vs, it)) :
     vs \in {v \in VariantLists : Len(v) <= 1},
     it \in {Null(0), Value(1000), Value(5)}}

PatternTypeLists ==
  {Undefined(<<>>), Null(<<>>), Value(<<>>), Value(DefaultPatternTypes),
   Value(<<"caching">>), Value(<<"dynamic_programming", "caching">>),
   Value(<<"two_pointers", "caching", "no_such_pattern", "dynamic_programming">>)}

DetectRequests ==
  {Request("detect_optimization_patterns",
           [code_snippet |-> c, language |-> "javascript", pattern_types |-> pt]) :
     c \in SampleCodes, pt \in PatternTypeLists}

TestCategoryLists ==
  {Undefined(<<>>), Null(<<>>), Value(<<>>), Value(DefaultTestCategories),
   Value(<<"correctness">>), Value(<<"performance", "fuzzing", "edge_cases">>)}

GenerateRequests ==
  {Request("generate_test_cases",
           [function_signature |-> "function f(x)", language |-> l,
            test_categories |-> tc]) :
     l \in {"javascript", "python", "go"}, tc \in TestCategoryLists}

OptionalNumbers == {Undefined(0), Null(0), Value(0), Value(3)}

ExperimentData ==
  {Undefined([total_variants |-> Undefined(0), avg_improvement |-> Undefined(0)]),
   Null([total_variants |-> Undefined(0), avg_improvement |-> Undefined(0)])}
  \cup
  {Value([total_variants |-> tv, avg_improvement |-> ai]) :
     tv \in OptionalNumbers, ai \in OptionalNumbers}

ReportRequests ==
  {Request("create_optimization_report",
           [experiment_data |-> d, include_visualizations |-> iv]) :
     d \in ExperimentData, iv \in OptionalBooleans}

RegisteredNames == {ToolCatalog[i].name : i \in DOMAIN ToolCatalog}

\* names the registry does not hold
UnknownNames ==
  {"", "unknown_tool", "analyzeCodeComplexity", "Analyze_Code_Complexity",
   "benchmark_performance ", "tools/list"}

UnknownRequests ==
  {BareRequest(n) : n \in UnknownNames}
  \cup
  {Request(n, AnalyzeArguments(c, "performance", Undefined(FALSE), Value(TRUE))) :
     n \in UnknownNames, c \in SampleCodes}

Requests ==
  AnalyzeRequests \cup BenchmarkRequests \cup DetectRequests
  \cup GenerateRequests \cup ReportRequests \cup UnknownRequests
  \cup {BareRequest(n) : n \in RegisteredNames}

\* values of new Date().toISOString()
Clock == {"2024-10-12T10:00:00.000Z", "2024-10-12T10:00:00.001Z"}

NoResponse == [kind |-> "none", content |-> <<>>, code |-> "none", message |-> ""]

(***************************************************************************)
(* The server as a state machine.                                          *)
(***************************************************************************)
VARIABLES
  pc,         \* "idle", "received" (request delivered), "responded"
  request,    \* the tools/call request being served
  response,   \* the response of the request handler, until it is sent
  ran,        \* the tool handlers run for the request being served
  bound,      \* the defaulted parameters as the handler bound them
  raised,     \* what the try block of the call threw, NoError if nothing
  clock,      \* what new Date() gave the call
  draws,      \* what Math.random() gave the call, in order
  firstList,  \* result of the first tools/list request, <<>> before it
  lastList,   \* result of the latest tools/list request
  served,     \* a tools/call request was handled after the first tools/list
  relisted,   \* tools/list was answered again after such a call
  calls,      \* event loop: the requests dispatched so far, in dispatch order
  jobs,       \* event loop: the microtask queue, oldest job first
  outbox,     \* event loop: the responses written to stdout, in write order
  reading     \* event loop: the transport is still going through a chunk

\* the variables of the request-by-request view
callVars ==
  <<pc, request, response, ran, bound, raised, clock, draws,
    firstList, lastList, served, relisted>>

\* the variables of the event-loop view
loopVars == <<calls, jobs, outbox, reading>>

vars == <<callVars, loopVars>>

Init ==
  /\ pc = "idle"
  /\ request = NoRequest
  /\ response = NoResponse
  /\ ran = <<>>
  /\ bound = Unbound
  /\ raised = NoError
  /\ clock = ""
  /\ draws = <<>>
  /\ firstList = <<>>
  /\ lastList = <<>>
  /\ served = FALSE
  /\ relisted = FALSE
  /\ calls = <<>>
  /\ jobs = <<>>
  /\ outbox = <<>>
  /\ reading = FALSE

\* the transport hands a tools/call request to the server
Receive ==
  /\ pc = "idle"
  /\ \E r \in Requests : request' = r
  /\ pc' = "received"
  /\ UNCHANGED <<response, ran, bound, raised, clock, draws,
                 firstList, lastList, served, relisted>>
  /\ UNCHANGED loopVars

\* the values Math.random() returns during the call: one per variant that
\* benchmarkPerformance maps over, none for the other handlers
RandomDraws(r) ==
  IF r.name = "benchmark_performance" /\ r.hasArguments
  THEN [1..Len(r.arguments.optimized_variants) -> Draws]
  ELSE {<<>>}

\* a handler that keeps a flag across calls: once a call has been handled
\* after the catalog was listed, every later call is refused
CallToolBusy ==
  /\ pc = "received"
  /\ \E now \in Clock, rnd \in RandomDraws(request) :
       \E call \in {CallToolRequest(request, now, rnd)} :
         /\ response' = IF served
                        THEN ResponseOf(Throw(McpError("InternalError",
                                                       "Server busy"), Unbound))
                        ELSE ResponseOf(call.completion)
         /\ ran' = call.ran
         /\ bound' = call.completion.bound
         /\ raised' = call.raised
         /\ clock' = now
         /\ draws' = rnd
  /\ served' = (firstList # <<>>)
  /\ pc' = "responded"
  /\ UNCHANGED <<request, firstList, lastList, relisted>>
  /\ UNCHANGED loopVars

\* the CallToolRequestSchema handler, from the switch to its return or throw
CallTool ==
  /\ pc = "received"
  /\ \E now \in Clock, rnd \in RandomDraws(request) :
       \E call \in {CallToolRequest(request, now, rnd)} :
         /\ response' = ResponseOf(call.completion)
         /\ ran' = call.ran
         /\ bound' = call.completion.bound
         /\ raised' = call.raised
         /\ clock' = now
         /\ draws' = rnd
  /\ served' = (firstList # <<>>)
  /\ pc' = "responded"
  /\ UNCHANGED <<request, firstList, lastList, relisted>>
  /\ UNCHANGED loopVars

\* the response is written to the transport
Reply ==
  /\ pc = "responded"
  /\ pc' = "idle"
  /\ request' = NoRequest
  /\ response' = NoResponse
  /\ ran' = <<>>
  /\ bound' = Unbound
  /\ raised' = NoError
  /\ clock' = ""
  /\ draws' = <<>>
  /\ UNCHANGED <<firstList, lastList, served, relisted>>
  /\ UNCHANGED loopVars

\* a list handler that hands out one shared array which a served call has
\* reordered
ListToolsShared ==
  /\ pc = "idle"
  /\ lastList' = IF served
                 THEN [i \in DOMAIN ToolCatalog |->
                         ToolCatalog[Len(ToolCatalog) + 1 - i]]
                 ELSE ToolCatalog
  /\ firstList' = IF firstList = <<>> THEN ToolCatalog ELSE firstList
  /\ relisted' = (relisted \/ served)
  /\ UNCHANGED <<pc, request, response, ran, bound, raised, clock, draws,
                 served>>
  /\ UNCHANGED loopVars

\* the ListToolsRequestSchema handler
ListTools ==
  /\ pc = "idle"
  /\ lastList' = ToolCatalog
  /\ firstList' = IF firstList = <<>> THEN ToolCatalog ELSE firstList
  /\ relisted' = (relisted \/ served)
  /\ UNCHANGED <<pc, request, response, ran, bound, raised, clock, draws,
                 served>>
  /\ UNCHANGED loopVars

Next == Receive \/ CallTool \/ Reply \/ ListTools

Spec == Init /\ [][Next]_vars

(***************************************************************************)
(* The event loop.  The request handler is an async function, so a call    *)
(* is a chain of microtasks, and requests that reach the transport in one  *)
(* chunk are all dispatched before the first microtask runs.  The protocol *)
(* layer (Server of the SDK) dispatches a request as                       *)
(*   Promise.resolve().then(() => handler(request)).then(send, sendError)  *)
(* and the transport writes a response inside send.  Microtasks run first  *)
(* in, first out; the next chunk is read when the queue is empty.          *)
(***************************************************************************)
MaxPipelined == 3

\* one request a handler answers, one a handler fails on, one without handler
PipelinedRequests ==
  {Request("generate_test_cases",
           [function_signature |-> "function f(x)", language |-> "javascript",
            test_categories |-> Undefined(<<>>)]),
   BareRequest("analyze_code_complexity"),
   BareRequest("unknown_tool")}

\* a request handler whose tool arms suspend twice
awaitsTwice(r) == IF Dispatch(r, "", <<>>).ran # <<>> THEN 2 ELSE 0

\* the awaits a call goes through: `return await this.tool(args)` awaits the
\* promise of an async method that has no await of its own, so that promise
\* is settled already; the default arm throws without an await
awaits(r) == IF Dispatch(r, "", <<>>).ran # <<>> THEN 1 ELSE 0

Job(kind, id) == [job |-> kind, id |-> id]

HeadIs(kind) == jobs # <<>> /\ Head(jobs).job = kind

\* the transport parses one more request out of the chunk it is reading, or
\* out of a new chunk once the microtask queue is empty; the protocol layer
\* queues the call of the request handler
OnMessage ==
  /\ Len(calls) < MaxPipelined
  /\ reading \/ jobs = <<>>
  /\ \E r \in PipelinedRequests :
       calls' = Append(calls, [request    |-> r,
                               left       |-> awaits(r),
                               state      |-> "queued",
                               subscribed |-> FALSE,
                               pipelined  |-> jobs # <<>>])
  /\ jobs' = Append(jobs, Job("call", Len(calls) + 1))
  /\ reading' = TRUE
  /\ UNCHANGED outbox
  /\ UNCHANGED callVars

\* microtask: the request handler is called and runs to its first await, or
\* to its end; then the promise it returned is handed to the then() chain
CallHandler ==
  /\ HeadIs("call")
  /\ LET id == Head(jobs).id
     IN  IF calls[id].left = 0
         THEN /\ calls' = [calls EXCEPT ![id].state = "settled"]
              /\ jobs' = Append(Tail(jobs), Job("adopt", id))
         ELSE /\ calls' = [calls EXCEPT ![id].state = "awaiting"]
              /\ jobs' = Tail(jobs) \o <<Job("resume", id), Job("adopt", id)>>
  /\ reading' = FALSE
  /\ UNCHANGED outbox
  /\ UNCHANGED callVars

\* microtask: the request handler goes on after an await, to its next await
\* or to its return or throw, which settles its promise
ResumeHandler ==
  /\ HeadIs("resume")
  /\ LET id == Head(jobs).id
     IN  IF calls[id].left > 1
         THEN /\ calls' = [calls EXCEPT ![id].left = @ - 1]
              /\ jobs' = Append(Tail(jobs), Job("resume", id))
         ELSE /\ calls' = [calls EXCEPT ![id].left = 0, ![id].state = "settled"]
              /\ jobs' = IF calls[id].subscribed
                         THEN Append(Tail(jobs), Job("settle", id))
                         ELSE Tail(jobs)
  /\ reading' = FALSE
  /\ UNCHANGED outbox
  /\ UNCHANGED callVars

\* microtask: the promise of the first then() adopts the handler's promise
\* (handlerPromise.then(resolve, reject)); a settled promise queues the
\* reaction at once, a pending one keeps it
AdoptPromise ==
  /\ HeadIs("adopt")
  /\ LET id == Head(jobs).id
     IN  IF calls[id].state = "settled"
         THEN /\ calls' = calls
              /\ jobs' = Append(Tail(jobs), Job("settle", id))
         ELSE /\ calls' = [calls EXCEPT ![id].subscribed = TRUE]
              /\ jobs' = Tail(jobs)
  /\ reading' = FALSE
  /\ UNCHANGED outbox
  /\ UNCHANGED callVars

\* microtask: the promise of the first then() settles and queues send or
\* sendError
SettleOuter ==
  /\ HeadIs("settle")
  /\ jobs' = Append(Tail(jobs), Job("send", Head(jobs).id))
  /\ reading' = FALSE
  /\ UNCHANGED <<calls, outbox>>
  /\ UNCHANGED callVars

\* microtask: the response of the call is written to stdout
Send ==
  /\ HeadIs("send")
  /\ LET id == Head(jobs).id
         sent == ResponseOf(CallToolRequest(calls[id].request,
                                            CHOOSE now \in Clock : TRUE,
                                            <<>>).completion)
     IN  outbox' = Append(outbox, [id |-> id, kind |-> sent.kind,
                                   code |-> sent.code])
  /\ jobs' = Tail(jobs)
  /\ reading' = FALSE
  /\ UNCHANGED calls
  /\ UNCHANGED callVars

EventLoopNext ==
  OnMessage \/ CallHandler \/ ResumeHandler \/ AdoptPromise \/ SettleOuter \/ Send

EventLoopSpec == Init /\ [][EventLoopNext]_vars

(***************************************************************************)
(* Properties.                                                             *)
(***************************************************************************)
Responded == pc = "responded"

\* the serialised object of a successful response
Payload == response.content[1].text

ProtocolCodes == {"MethodNotFound", "InternalError"}

\* C1: a call to a name that is not in the registry fails with
\* MethodNotFound and the message "Tool {name} not found", and runs no
\* handler, whatever its arguments
C1_UnknownToolNotFound ==
  (Responded /\ request.name \notin RegisteredNames) =>
    /\ response.kind = "error"
    /\ response.code = "MethodNotFound"
    /\ response.message = "Tool " \o request.name \o " not found"
    /\ ran = <<>>

C1_Witness ==
  /\ Responded
  /\ request.name = "Analyze_Code_Complexity"
  /\ request.hasArguments
  /\ response.code = "MethodNotFound"
  /\ response.message = "Tool Analyze_Code_Complexity not found"

\* C2: when a handler throws something that is not an McpError, the call
\* fails with InternalError carrying the thrown error's message, and never
\* ends in a successful response
C2_HandlerErrorWrapped ==
  (Responded /\ raised.class \notin {"none", "McpError"}) =>
    /\ response.kind = "error"
    /\ response.code = "InternalError"
    /\ response.message =
         "Error executing tool " \o request.name \o ": " \o raised.message

C2_Witness ==
  /\ Responded
  /\ request.name = "detect_optimization_patterns"
  /\ raised.class = "TypeError"
  /\ raised.message = "Cannot read properties of null (reading 'map')"
  /\ response.code = "InternalError"

\* C3: an McpError thrown in the try block reaches the caller with its own
\* code and message; the catch block does not wrap it as InternalError
C3_McpErrorUnchanged ==
  (Responded /\ raised.class = "McpError") =>
    /\ response.kind = "error"
    /\ response.code = raised.code
    /\ response.message = raised.message
    /\ (raised.code = "MethodNotFound" => response.code # "InternalError")

C3_Witness ==
  /\ Responded
  /\ raised.class = "McpError"
  /\ raised.code = "MethodNotFound"
  /\ response.code = "MethodNotFound"

\* C4: whatever calls were served in between, tools/list returns the same
\* five definitions as the first tools/list did
C4_ListStable ==
  (lastList # <<>>) => (Len(lastList) = 5 /\ lastList = firstList)

C4_Witness == relisted /\ served /\ lastList # <<>> /\ pc = "idle"

ListedNames == {lastList[i].name : i \in DOMAIN lastList}

\* C5: the listed tool names are pairwise distinct, and a call reaches a
\* handler (does not fail with MethodNotFound) exactly when its name is listed
C5_ListedIffDispatched ==
  (lastList # <<>>) =>
    /\ \A i, j \in DOMAIN lastList :
         i # j => lastList[i].name # lastList[j].name
    /\ Responded =>
         /\ (ran # <<>>) <=> (request.name \in ListedNames)
         /\ (response.code # "MethodNotFound") <=> (request.name \in ListedNames)

C5_Witness ==
  /\ lastList # <<>>
  /\ Responded
  /\ request.name = "create_optimization_report"
  /\ ran = <<"createOptimizationReport">>

\* the inputSchema defaults of the tool a request names
SchemaDefaultsOf(r) ==
  ToolCatalog[CHOOSE i \in DOMAIN ToolCatalog : ToolCatalog[i].name = r.name]
    .defaults

\* the request with every omitted optional argument written out as the
\* default its inputSchema advertises
WithSchemaDefaults(r) ==
  [r EXCEPT !.arguments =
     [f \in DOMAIN r.arguments |->
        IF f \in DOMAIN SchemaDefaultsOf(r)
        THEN IF r.arguments[f].k = "undefined"
             THEN Value(SchemaDefaultsOf(r)[f]) ELSE r.arguments[f]
        ELSE r.arguments[f]]]

\* C6: an omitted optional argument is bound to the default advertised in
\* the tool's inputSchema (never to undefined), and the call answers exactly
\* as it does when that default is passed explicitly
C6_DefaultsApplied ==
  (Responded /\ request.hasArguments /\ request.name \in RegisteredNames) =>
    /\ \A f \in DOMAIN SchemaDefaultsOf(request) :
         /\ bound[f].k # "undefined"
         /\ request.arguments[f].k = "undefined" =>
              bound[f] = Value(SchemaDefaultsOf(request)[f])
    /\ response =
         ResponseOf(
           CallToolRequest(WithSchemaDefaults(request), clock, draws).completion)

C6_Witness ==
  /\ Responded
  /\ request.name = "detect_optimization_patterns"
  /\ request.hasArguments
  /\ request.arguments.pattern_types.k = "undefined"
  /\ response.kind = "result"
  /\ bound.pattern_types = Value(DefaultPatternTypes)
  /\ Len(Payload.detected_patterns) > 0

\* the handler method each registered name belongs to
OwnHandler ==
  [analyze_code_complexity      |-> "analyzeCodeComplexity",
   benchmark_performance        |-> "benchmarkPerformance",
   detect_optimization_patterns |-> "detectOptimizationPatterns",
   generate_test_cases          |-> "generateTestCases",
   create_optimization_report   |-> "createOptimizationReport"]

\* C7: a call runs at most one handler, once; a registered name runs its
\* own handler exactly once, also when that handler fails
C7_OneHandlerOnce ==
  Responded =>
    /\ Len(ran) <= 1
    /\ request.name \in DOMAIN OwnHandler => ran = <<OwnHandler[request.name]>>

C7_Witness ==
  /\ Responded
  /\ request.name = "benchmark_performance"
  /\ response.kind = "error"
  /\ ran = <<"benchmarkPerformance">>

\* C8: benchmark_performance with an empty optimized_variants list fails
\* with a protocol error, and no successful benchmark response is without a
\* best_variant taken from its variant_results
C8_EmptyVariantsFail ==
  (Responded /\ request.name = "benchmark_performance" /\ request.hasArguments)
  =>
    /\ request.arguments.optimized_variants = <<>> =>
         (response.kind = "error" /\ response.code \in ProtocolCodes)
    /\ response.kind = "result" =>
         /\ "best_variant" \in DOMAIN Payload
         /\ \E i \in DOMAIN Payload.variant_results :
              Payload.variant_results[i] = Payload.best_variant

C8_Witness ==
  /\ Responded
  /\ request.name = "benchmark_performance"
  /\ request.hasArguments
  /\ request.arguments.optimized_variants = <<>>
  /\ response.kind = "error"
  /\ response.message =
       "Error executing tool benchmark_performance: "
         \o "Reduce of empty array with no initial value"

IsLoopHeader(code, i) == HeaderEnd(code, i, {"for", "while"}) # 0

\* the "}" that closes the block opened at position open, Len(code)+1 if
\* the block is not closed; p scans with the current nesting depth
RECURSIVE MatchingBrace(_, _, _)
MatchingBrace(code, p, depth) ==
  IF p > Len(code) THEN p
  ELSE IF code[p] = "{" THEN MatchingBrace(code, p + 1, depth + 1)
  ELSE IF code[p] = "}"
       THEN IF depth = 1 THEN p ELSE MatchingBrace(code, p + 1, depth - 1)
  ELSE MatchingBrace(code, p + 1, depth)

\* a loop header at i whose block holds another loop header at j: the block
\* opens at the first "{" after header i, with no other header before it,
\* and j lies between that "{" and the "}" that closes it
HasNestedLoopHeaders(code) ==
  \E i, j, open \in 1..Len(code) :
    /\ IsLoopHeader(code, i) /\ IsLoopHeader(code, j)
    /\ HeaderEnd(code, i, {"for", "while"}) < open /\ open < j
    /\ code[open] = "{"
    /\ \A m \in (i + 1)..(open - 1) : code[m] # "{" /\ ~IsLoopHeader(code, m)
    /\ j < MatchingBrace(code, open + 1, 1)

AnalysisReturned ==
  /\ Responded
  /\ request.name = "analyze_code_complexity"
  /\ response.kind = "result"
  /\ Payload.complexity_analysis.k = "value"

Analysis == Payload.complexity_analysis.v

\* C9: code in which a loop header (for or while) is followed, before the
\* closing brace of its block, by another loop header is reported with
\* time_complexity O(n^2) and nested_loops >= 1; "for (;;) { for (;;) {} }"
\* gives loop_count 2 and nested_loops 1
C9_NestedLoopsQuadratic ==
  AnalysisReturned =>
    /\ HasNestedLoopHeaders(request.arguments.code) =>
         (Analysis.time_complexity = "O(n^2)" /\ Analysis.nested_loops >= 1)
    /\ request.arguments.code = ScenarioCode =>
         (Analysis.loop_count = 2 /\ Analysis.nested_loops = 1)

\* no "for" or "while" is followed by "(" with only blanks in between
NoLoopHeader(code) ==
  \A i, j \in 1..Len(code) :
    (i < j /\ code[i] \in {"for", "while"} /\ code[j] = "(") =>
      \E m \in (i + 1)..(j - 1) : code[m] # " "

NoRecursionProxy(code) ==
  ~(\E i \in 1..Len(code) : code[i] = "return")
  \/ ~(\E i \in 1..Len(code) : code[i] = "(")

\* C10: code with no loop header and without the recursion proxy is analysed
\* without failure, with complexity_score 0 and time_complexity O(1)
C10_BaselineConstant ==
  (/\ Responded
   /\ request.name = "analyze_code_complexity"
   /\ request.hasArguments
   /\ NoLoopHeader(request.arguments.code)
   /\ NoRecursionProxy(request.arguments.code))
  =>
    /\ response.kind = "result"
    /\ Payload.complexity_analysis.k = "value" =>
         (Analysis.complexity_score = 0 /\ Analysis.time_complexity = "O(1)")

C10_Witness ==
  /\ AnalysisReturned
  /\ request.arguments.code = <<"for", "x", "(">>
  /\ Analysis.complexity_score = 0
  /\ Analysis.time_complexity = "O(1)"

DetectReturned ==
  /\ Responded
  /\ request.name = "detect_optimization_patterns"
  /\ response.kind = "result"

Detected == Payload.detected_patterns

\* the pattern list in force for the call: the request's, or the default
RequestedPatterns == {bound.pattern_types.v[i] : i \in DOMAIN bound.pattern_types.v}

HasLookupToken(code) == \E i \in 1..Len(code) : code[i] \in {"find", "indexOf"}

\* C11: no entry of detected_patterns has an applicability score of 0.3 or
\* less, the recommendations name detected patterns only, and the caching
\* pattern of a snippet without a lookup token (score exactly 0.3) is left out
C11_ThresholdExclusive ==
  DetectReturned =>
    /\ \A i \in DOMAIN Detected :
         10 * Detected[i].applicability_score.n
           > 3 * Detected[i].applicability_score.d
    /\ \A i \in DOMAIN Payload.pattern_recommendations :
         \E j \in DOMAIN Detected :
           Detected[j].pattern_name = Payload.pattern_recommendations[i].pattern
    /\ ~HasLookupToken(request.arguments.code_snippet) =>
         \A i \in DOMAIN Detected : Detected[i].pattern_name # "caching"

C11_Witness ==
  /\ DetectReturned
  /\ "caching" \in RequestedPatterns
  /\ ~HasLookupToken(request.arguments.code_snippet)
  /\ Detected # <<>>
  /\ \A i \in DOMAIN Detected : Detected[i].pattern_name # "caching"

BenchmarkReturned ==
  /\ Responded
  /\ request.name = "benchmark_performance"
  /\ response.kind = "result"

\* C12: a benchmark of exactly one variant whose code is the original code
\* reports, for every random draw, an improvement_percentage within
\* [-20, 20] and that variant as best_variant
C12_IdenticalVariantBand ==
  (/\ BenchmarkReturned
   /\ Len(request.arguments.optimized_variants) = 1
   /\ request.arguments.optimized_variants[1].code
        = request.arguments.original_code)
  =>
    LET only == Payload.variant_results[1]
        imp  == only.improvement_percentage
    IN  /\ Len(Payload.variant_results) = 1
        /\ imp.d > 0
        /\ -20 * imp.d <= imp.n /\ imp.n <= 20 * imp.d
        /\ Payload.best_variant = only
        /\ Payload.best_variant.variant_name
             = request.arguments.optimized_variants[1].name

\* the extreme draw: the variant is reported 20 percent faster
C12_Witness ==
  /\ BenchmarkReturned
  /\ Len(request.arguments.optimized_variants) = 1
  /\ request.arguments.optimized_variants[1].code
       = request.arguments.original_code
  /\ request.arguments.original_code = <<"for", "(", "for", "(">>
  /\ draws[1] = 0
  /\ Payload.best_variant.variant_name = "nested"
  /\ Payload.best_variant.improvement_percentage = [n |-> 20, d |-> 1]

GenerateReturned ==
  /\ Responded
  /\ request.name = "generate_test_cases"
  /\ response.kind = "result"

RecognizedCategories ==
  {"edge_cases", "performance", "correctness", "error_handling"}

\* the first title of each recognized category's list
FirstTitle ==
  [edge_cases     |-> "Empty input handling",
   performance    |-> "Large dataset performance (10K+ elements)",
   correctness    |-> "Algorithm correctness validation",
   error_handling |-> "Invalid input handling"]

\* C13: generate_test_cases answers every category list with one entry per
\* requested category, in request order; a recognized category carries its
\* own five titles, any other category the single generic placeholder
C13_OneEntryPerCategory ==
  (/\ Responded
   /\ request.name = "generate_test_cases"
   /\ request.hasArguments
   /\ bound.test_categories.k = "value")
  =>
    /\ response.kind = "result"
    /\ LET requested == bound.test_categories.v
           generated == Payload.generated_test_categories
       IN  /\ Len(generated) = Len(requested)
           /\ \A i \in DOMAIN requested :
                /\ generated[i].category = requested[i]
                /\ IF requested[i] \in RecognizedCategories
                   THEN /\ Len(generated[i].tests) = 5
                        /\ generated[i].tests[1] = FirstTitle[requested[i]]
                        /\ \A j \in DOMAIN requested :
                             requested[j] = requested[i] =>
                               generated[j].tests = generated[i].tests
                   ELSE generated[i].tests = <<"General test case">>

C13_Witness ==
  /\ GenerateReturned
  /\ bound.test_categories.v = <<"performance", "fuzzing", "edge_cases">>
  /\ Len(Payload.generated_test_categories) = 3
  /\ Payload.generated_test_categories[2]
       = [category |-> "fuzzing", tests |-> <<"General test case">>]
  /\ Len(Payload.generated_test_categories[3].tests) = 5

\* C14: with caching among the requested patterns, a snippet that contains
\* "indexOf" or "find" gets a caching entry with score exactly 0.9; without
\* either token the caching rule scores 0.3
C14_CachingRule ==
  (DetectReturned /\ "caching" \in RequestedPatterns) =>
    IF HasLookupToken(request.arguments.code_snippet)
    THEN /\ \E i \in DOMAIN Detected : Detected[i].pattern_name = "caching"
         /\ \A i \in DOMAIN Detected :
              Detected[i].pattern_name = "caching" =>
                Detected[i].applicability_score = [n |-> 9, d |-> 10]
    ELSE assessPatternApplicability(request.arguments.code_snippet,
                                    "caching").score = [n |-> 3, d |-> 10]

C14_Witness ==
  /\ DetectReturned
  /\ request.arguments.code_snippet = FindCode
  /\ \E i \in DOMAIN Detected :
       /\ Detected[i].pattern_name = "caching"
       /\ Detected[i].applicability_score = [n |-> 9, d |-> 10]
       /\ Detected[i].code_indicators = <<"repeated_lookups">>

\* C17: every tools/call ends either in a result whose content is exactly
\* one block of type "text", or in a protocol error whose code is
\* MethodNotFound or InternalError
C17_ResultOrProtocolError ==
  Responded =>
    \/ /\ response.kind = "result"
       /\ Len(response.content) = 1
       /\ response.content[1].type = "text"
       /\ response.code = "none"
    \/ /\ response.kind = "error"
       /\ response.content = <<>>
       /\ response.code \in {"MethodNotFound", "InternalError"}

C17_Witness ==
  /\ Responded
  /\ request.name = "create_optimization_report"
  /\ response.kind = "result"
  /\ Len(response.content) = 1
  /\ response.content[1].type = "text"
  /\ Payload.experiment_summary.total_variants = 3

\* the number held by a property, 0 for a missing or null one
FieldOrZero(x) == IF x.k = "value" THEN x.v ELSE 0

\* C18: create_optimization_report has no error conditions: for every
\* experiment_data value, including one with missing fields, it returns a
\* report in which each missing summary field is 0, and the visualization is
\* null exactly when include_visualizations is false
C18_ReportNeverFails ==
  (/\ Responded
   /\ request.name = "create_optimization_report"
   /\ request.hasArguments)
  =>
    /\ response.kind = "result"
    /\ request.arguments.experiment_data.k = "value" =>
         /\ Payload.experiment_summary.total_variants
              = FieldOrZero(request.arguments.experiment_data.v.total_variants)
         /\ Payload.experiment_summary.best_improvement
              = FieldOrZero(request.arguments.experiment_data.v.avg_improvement)
    /\ (Payload.visualization.k = "null")
         <=> ~Truthy(bound.include_visualizations)

\* C19: time_complexity is O(n^2) if nested_loops > 0, else O(n) if
\* loop_count > 0, else O(n) if recursive_calls > 0, else O(1);
\* space_complexity is O(n) exactly when nested_loops > 0, otherwise O(1)
C19_ClassificationPriority ==
  AnalysisReturned =>
    /\ Analysis.nested_loops > 0 => Analysis.time_complexity = "O(n^2)"
    /\ (Analysis.nested_loops = 0 /\ Analysis.loop_count > 0) =>
         Analysis.time_complexity = "O(n)"
    /\ (Analysis.nested_loops = 0 /\ Analysis.loop_count = 0
        /\ Analysis.recursive_calls > 0) =>
         Analysis.time_complexity = "O(n)"
    /\ (Analysis.nested_loops = 0 /\ Analysis.loop_count = 0
        /\ Analysis.recursive_calls = 0) =>
         Analysis.time_complexity = "O(1)"
    /\ Analysis.space_complexity
         = (IF Analysis.nested_loops > 0 THEN "O(n)" ELSE "O(1)")

\* the third arm: no loop, the recursion proxy alone makes the code linear
C19_Witness ==
  /\ AnalysisReturned
  /\ Analysis.loop_count = 0
  /\ Analysis.recursive_calls = 1
  /\ Analysis.time_complexity = "O(n)"
  /\ Analysis.space_complexity = "O(1)"

\* C20: complexity_score equals loop_count + 2 * nested_loops +
\* recursive_calls of the same result, and recursive_calls is 1 if the code
\* contains both "return" and "(", 0 otherwise
C20_ScoreFormula ==
  AnalysisReturned =>
    /\ Analysis.complexity_score
         = Analysis.loop_count + 2 * Analysis.nested_loops
           + Analysis.recursive_calls
    /\ Analysis.recursive_calls
         = (IF NoRecursionProxy(request.arguments.code) THEN 0 ELSE 1)

C20_Witness ==
  /\ AnalysisReturned
  /\ request.arguments.code = <<"for", "(", "for", "(">>
  /\ Analysis.loop_count = 2
  /\ Analysis.nested_loops = 1
  /\ Analysis.recursive_calls = 0
  /\ Analysis.complexity_score = 4

Results == Payload.variant_results

Variants == request.arguments.optimized_variants

\* C21: the score the benchmark reports for the original code and for each
\* variant equals the Complexity Analyzer's complexity_score of the same code
C21_SimulatorUsesAnalyzerScore ==
  BenchmarkReturned =>
    /\ Payload.original_code_complexity
         = performComplexityAnalysis(request.arguments.original_code)
             .complexity_score
    /\ \A i \in DOMAIN Results :
         Results[i].complexity_score
           = performComplexityAnalysis(Variants[i].code).complexity_score

\* max(variantScore, 0.1) for the i-th result, from the reported scores
DivisorOf(i) == RatMax(Rat(Results[i].complexity_score, 1), Rat(1, 10))

\* baseline / max(variantScore, 0.1) for the i-th result
FactorOf(i) == RatDiv(Rat(Payload.original_code_complexity, 1), DivisorOf(i))

\* C22: for every original code and variant the divisor max(variantScore,
\* 0.1) is not zero, improvementFactor is finite and strictly positive, and
\* execution_time_ms is finite
C22_FactorFinitePositive ==
  BenchmarkReturned =>
    \A i \in DOMAIN Results :
      /\ DivisorOf(i).d # 0 /\ DivisorOf(i).n > 0
      /\ FactorOf(i).d # 0 /\ FactorOf(i).n > 0
      /\ Results[i].execution_time_ms.d # 0
      /\ Results[i].execution_time_ms.n > 0

\* the lowest variant score against the highest baseline of the model
C22_Witness ==
  /\ BenchmarkReturned
  /\ Payload.original_code_complexity = 5
  /\ Results[1].complexity_score = 1
  /\ FactorOf(1) = [n |-> 5, d |-> 1]
  /\ Results[1].execution_time_ms.d # 0

\* C23: for every variant and random draw U, execution_time_ms is
\* (0.8 + 0.4 * U) / improvementFactor, which lies in
\* [0.8 / improvementFactor, 1.2 / improvementFactor); the draw is the only
\* input besides the two code strings
C23_JitterBand ==
  BenchmarkReturned =>
    \A i \in DOMAIN Results :
      /\ Results[i].execution_time_ms
           = RatDiv(RatAdd(Rat(8, 10),
                           RatMul(Rat(4, 10), Rat(draws[i], RandSteps))),
                    FactorOf(i))
      /\ ~RatLess(Results[i].execution_time_ms,
                  RatDiv(Rat(8, 10), FactorOf(i)))
      /\ RatLess(Results[i].execution_time_ms,
                 RatDiv(Rat(12, 10), FactorOf(i)))

\* the same variant twice in one call: the times differ by the draws alone
C23_Witness ==
  /\ BenchmarkReturned
  /\ Len(Results) = 2
  /\ Variants[1] = Variants[2]
  /\ draws[1] = 0 /\ draws[2] = RandSteps - 1
  /\ Results[1].execution_time_ms = RatDiv(Rat(8, 10), FactorOf(1))
  /\ RatLess(Results[1].execution_time_ms, Results[2].execution_time_ms)

\* C24: improvement_percentage = max(-20, (1 - execution_time_ms) * 100),
\* never below -20 and always below 100; memory_usage_mb =
\* max(0.5, 10 - 30 * max(0, improvementFactor - 1)), always in [0.5, 10]
C24_ClampedOutputs ==
  BenchmarkReturned =>
    \A i \in DOMAIN Results :
      LET imp == Results[i].improvement_percentage
          mem == Results[i].memory_usage_mb
          raw == RatMul(RatSub(Rat(1, 1), Results[i].execution_time_ms),
                        Rat(100, 1))
          gain == RatMul(Rat(30, 1),
                         RatMax(Rat(0, 1), RatSub(FactorOf(i), Rat(1, 1))))
      IN  /\ imp = RatMax(Rat(-20, 1), raw)
          /\ imp.d > 0 /\ -20 * imp.d <= imp.n /\ imp.n < 100 * imp.d
          /\ mem = RatMax(Rat(1, 2), RatSub(Rat(10, 1), gain))
          /\ mem.d > 0 /\ mem.d <= 2 * mem.n /\ mem.n <= 10 * mem.d

\* both clamps at work in one call: a slower variant held at -20 percent with
\* the full 10 MB, and a faster one held at 0.5 MB
C24_Witness ==
  /\ BenchmarkReturned
  /\ \E i, j \in DOMAIN Results :
       /\ Results[i].improvement_percentage = [n |-> -20, d |-> 1]
       /\ RatLess(Rat(12, 10), Results[i].execution_time_ms)
       /\ Results[i].memory_usage_mb = [n |-> 10, d |-> 1]
       /\ Results[j].memory_usage_mb = [n |-> 1, d |-> 2]
       /\ RatLess(Rat(0, 1), Results[j].improvement_percentage)

\* the sum of the first n improvement percentages
RECURSIVE TotalImprovement(_, _)
TotalImprovement(results, n) ==
  IF n = 0 THEN Rat(0, 1)
  ELSE RatAdd(TotalImprovement(results, n - 1),
              results[n].improvement_percentage)

\* C25: best_variant is the first element of variant_results, in input
\* order, whose improvement_percentage is the maximum over all results;
\* best_improvement is its improvement_percentage and average_improvement
\* is the mean of all improvement_percentage values
C25_BestIsFirstMaximum ==
  BenchmarkReturned =>
    LET best == Payload.best_variant
        maximal == {i \in DOMAIN Results :
                      \A j \in DOMAIN Results :
                        ~RatLess(Results[i].improvement_percentage,
                                 Results[j].improvement_percentage)}
    IN  /\ maximal # {}
        /\ best = Results[SetMin(maximal)]
        /\ best.variant_name = Variants[SetMin(maximal)].name
        /\ Payload.performance_summary.best_improvement
             = best.improvement_percentage
        /\ Payload.performance_summary.average_improvement
             = RatDiv(TotalImprovement(Results, Len(Results)),
                      Rat(Len(Results), 1))

\* two different variants share the maximum; the first one is the best
C25_Witness ==
  /\ BenchmarkReturned
  /\ Len(Results) = 2
  /\ Variants[1].name # Variants[2].name
  /\ Results[1].improvement_percentage = Results[2].improvement_percentage
  /\ Payload.best_variant.variant_name = Variants[1].name
  /\ Payload.best_variant = Results[1]

HasMemoToken(code) == \E i \in 1..Len(code) : code[i] = "memo"

\* C26: the dynamic_programming pattern scores 0.8 only when the code shows
\* both the recursion proxy and a memo token; with one of the two, or
\* neither, it scores 0.2 and is filtered out of the output
C26_DynamicProgrammingNeedsBoth ==
  (DetectReturned /\ "dynamic_programming" \in RequestedPatterns) =>
    IF /\ ~NoRecursionProxy(request.arguments.code_snippet)
       /\ HasMemoToken(request.arguments.code_snippet)
    THEN \E i \in DOMAIN Detected :
           /\ Detected[i].pattern_name = "dynamic_programming"
           /\ Detected[i].applicability_score = [n |-> 4, d |-> 5]
    ELSE \A i \in DOMAIN Detected :
           Detected[i].pattern_name # "dynamic_programming"

\* the pattern list in force for the call, as a sequence
RequestedList == bound.pattern_types.v

\* how often name occurs in a sequence of names or of pattern results
Occurrences(seq, name) ==
  Cardinality({i \in DOMAIN seq : seq[i] = name})

DetectedNames == [i \in DOMAIN Detected |-> Detected[i].pattern_name]

\* C27: every requested pattern name other than dynamic_programming and
\* caching, known or not, is returned with the neutral score 0.5, whatever
\* the code snippet, and the call does not fail
C27_OtherPatternsNeutral ==
  (/\ Responded
   /\ request.name = "detect_optimization_patterns"
   /\ request.hasArguments
   /\ bound.pattern_types.k = "value")
  =>
    /\ response.kind = "result"
    /\ \A i \in DOMAIN RequestedList :
         RequestedList[i] \notin {"dynamic_programming", "caching"} =>
           /\ Occurrences(DetectedNames, RequestedList[i])
                = Occurrences(RequestedList, RequestedList[i])
           /\ \A j \in DOMAIN Detected :
                Detected[j].pattern_name = RequestedList[i] =>
                  Detected[j].applicability_score = [n |-> 1, d |-> 2]

C27_Witness ==
  /\ DetectReturned
  /\ \E i \in DOMAIN RequestedList : RequestedList[i] = "no_such_pattern"
  /\ \E j \in DOMAIN Detected :
       /\ Detected[j].pattern_name = "no_such_pattern"
       /\ Detected[j].applicability_score = [n |-> 1, d |-> 2]
       /\ Detected[j].implementation_hint = "Pattern analysis available"

\* the score of the detected pattern called name
ScoreOf(name) ==
  (CHOOSE d \in {Detected[i] : i \in DOMAIN Detected} : d.pattern_name = name)
    .applicability_score

Recommendations == Payload.pattern_recommendations

\* C28: pattern_recommendations has at most 3 entries, is ordered by
\* non-increasing applicability_score, and holds the highest-scoring entries
\* of detected_patterns: no pattern left out scores strictly higher than one
\* that is included
C28_TopThreeRecommendations ==
  DetectReturned =>
    /\ Len(Recommendations) <= 3
    /\ Len(Recommendations)
         = (IF Len(Detected) < 3 THEN Len(Detected) ELSE 3)
    /\ \A i \in DOMAIN Recommendations :
         \E j \in DOMAIN Detected :
           Detected[j].pattern_name = Recommendations[i].pattern
    /\ \A i, j \in DOMAIN Recommendations :
         i < j => ~RatLess(ScoreOf(Recommendations[i].pattern),
                           ScoreOf(Recommendations[j].pattern))
    /\ \A j \in DOMAIN Detected :
         (\A i \in DOMAIN Recommendations :
            Recommendations[i].pattern # Detected[j].pattern_name)
         => \A i \in DOMAIN Recommendations :
              ~RatLess(ScoreOf(Recommendations[i].pattern),
                       Detected[j].applicability_score)

\* four patterns pass the filter with three different scores; the 0.5 entry
\* requested last stays out of the recommendations
C28_Witness ==
  /\ DetectReturned
  /\ request.arguments.code_snippet = RecursiveLookupCode
  /\ Len(Detected) = 4
  /\ Len(Recommendations) = 3
  /\ Recommendations[1].pattern = "caching"
  /\ Recommendations[2].pattern = "dynamic_programming"
  /\ Recommendations[3].pattern = "two_pointers"

\* C29: detected_patterns lists the retained patterns in the order in which
\* they were requested in pattern_types, whatever their scores
C29_DetectedInRequestOrder ==
  DetectReturned =>
    DetectedNames
      = SelectSeq(RequestedList,
                  LAMBDA name : \E j \in DOMAIN Detected :
                                  Detected[j].pattern_name = name)

\* C30: loop_count >= 2 * nested_loops for every code string, so
\* nested_loops > 0 is never reported together with loop_count < 2
C30_NestedNeedsTwoLoops ==
  AnalysisReturned =>
    /\ Analysis.loop_count >= 2 * Analysis.nested_loops
    /\ Analysis.nested_loops > 0 => Analysis.loop_count >= 2

C30_Witness ==
  /\ AnalysisReturned
  /\ request.arguments.code = TwoNestCode
  /\ Analysis.nested_loops = 2
  /\ Analysis.loop_count = 4

====
